---------------------------- MODULE Spec2Model ----------------------------
(***************************************************************************)
(* A model of the Mini-Google search engine of src/Mini.cpp: the           *)
(* tokenizer, the inverted index with its trie, the ranker with its        *)
(* result cache, autocomplete with its prefix cache, and prefix search.    *)
(*                                                                         *)
(* Text is a TLA+ string; byte i of s is SubSeq(s, i, i).  A float is an   *)
(* integer number of millionths (Unit).                                    *)
(***************************************************************************)
EXTENDS Integers, Sequences, FiniteSets, TLC

(***************************************************************************)
(* Bounds of the model.  The two cache capacities and the queue capacity   *)
(* are 1000, 1000 and 1024 in the source; the model keeps their role and   *)
(* scales their value, so that a full cache and a full queue are reached.  *)
(***************************************************************************)
max_cache_size == 2
SEARCH_CACHE_MAX == 2
MAX_QUEUE_SIZE == 3
MaxPage == 2

(***************************************************************************)
(* Program constants.                                                      *)
(***************************************************************************)
MAX_POSTING_POSITIONS == 50
MAX_FREQ == 1000
MAX_TOKENS == 100000
WORD_LIMIT == 200000
DOCFREQ_MAX == 32767
TRIE_MAX_WORD == 25
TRIE_MIN_LEN == 2
TRIE_MAX_LEN == 20
TOKEN_BUFFER == 31
TOKEN_MIN_LEN == 2
TOKEN_MAX_LEN == 15
PREFIX_TERMS == 5
INT_MAX == 2147483647
Unit == 1000000

(***************************************************************************)
(* Characters.                                                             *)
(***************************************************************************)
Char(s, i) == SubSeq(s, i, i)

LowerLetters == "abcdefghijklmnopqrstuvwxyz"
UpperLetters == "ABCDEFGHIJKLMNOPQRSTUVWXYZ"
Digits == "0123456789"

LowerSet == {Char(LowerLetters, i) : i \in 1..26}
UpperSet == {Char(UpperLetters, i) : i \in 1..26}
DigitSet == {Char(Digits, i) : i \in 1..10}

\* The byte 0 is written "#" in the model's strings.
NUL == "#"

isalnum(c) == c \in LowerSet \/ c \in UpperSet \/ c \in DigitSet
isalpha(c) == c \in LowerSet \/ c \in UpperSet
isdigit(c) == c \in DigitSet

LowerOf == [c \in UpperSet |-> Char(LowerLetters, CHOOSE i \in 1..26 : Char(UpperLetters, i) = c)]
tolower(c) == IF c \in UpperSet THEN LowerOf[c] ELSE c

\* c - 'a' for a lowercase letter, and -1 for any byte outside 'a'..'z'.
LetterIndex == [c \in LowerSet |-> (CHOOSE i \in 1..26 : Char(LowerLetters, i) = c) - 1]
letter_idx(c) == IF c \in LowerSet THEN LetterIndex[c] ELSE -1

RECURSIVE toLowerFrom(_, _)
toLowerFrom(s, i) ==
  IF i > Len(s) THEN "" ELSE tolower(Char(s, i)) \o toLowerFrom(s, i + 1)

toLowerFast(s) == toLowerFrom(s, 1)

\* std::string::find(needle, from): the first 1-based index >= from at which
\* needle occurs in text, 0 when there is none (npos).
RECURSIVE FindFrom(_, _, _)
FindFrom(text, needle, from) ==
  IF from + Len(needle) - 1 > Len(text) THEN 0
  ELSE IF SubSeq(text, from, from + Len(needle) - 1) = needle THEN from
  ELSE FindFrom(text, needle, from + 1)

Find(text, needle) == FindFrom(text, needle, 1)

RECURSIVE all_digits(_, _)
all_digits(w, i) == IF i > Len(w) THEN TRUE ELSE isdigit(Char(w, i)) /\ all_digits(w, i + 1)

(***************************************************************************)
(* The tokenizer.                                                          *)
(***************************************************************************)
STOP_WORDS ==
  {"the", "and", "for", "are", "but", "not", "you", "all", "any", "can",
   "had", "her", "was", "one", "our", "out", "day", "get", "has", "him",
   "his", "how", "man", "new", "now", "old", "see", "two", "way", "who",
   "boy", "did", "its", "let", "put", "say", "she", "too", "use", "may",
   "also", "than", "that", "this", "with", "from", "have", "were", "been",
   "they", "what", "when", "where", "which", "will", "your", "their"}

\* The test as it would be without the stop-word lookup.
keep_word_with_stop_words(word) ==
  /\ Len(word) >= TOKEN_MIN_LEN
  /\ Len(word) <= TOKEN_MAX_LEN
  /\ ~all_digits(word, 1)

\* The test a completed run passes to become a token.
keep_word(word) ==
  /\ Len(word) >= TOKEN_MIN_LEN
  /\ Len(word) <= TOKEN_MAX_LEN
  /\ word \notin STOP_WORDS
  /\ ~all_digits(word, 1)

\* The scan loop and the flush after it; buf is buffer[0..buf_idx).
RECURSIVE tokenize_scan(_, _, _, _)
tokenize_scan(text, ptr, buf, tokens) ==
  IF ptr > Len(text) \/ Char(text, ptr) = NUL \/ Len(tokens) >= MAX_TOKENS
  THEN IF Len(buf) > 0 /\ keep_word(buf) THEN Append(tokens, buf) ELSE tokens
  ELSE LET c == Char(text, ptr) IN
       IF isalnum(c)
       THEN tokenize_scan(text, ptr + 1,
                          IF Len(buf) < TOKEN_BUFFER THEN buf \o tolower(c) ELSE buf,
                          tokens)
       ELSE IF Len(buf) > 0
       THEN tokenize_scan(text, ptr + 1, "",
                          IF keep_word(buf) THEN Append(tokens, buf) ELSE tokens)
       ELSE tokenize_scan(text, ptr + 1, buf, tokens)

tokenize_ultrafast(text) ==
  IF Len(text) = 0 THEN <<>> ELSE tokenize_scan(text, 1, "", <<>>)

(***************************************************************************)
(* Machine integers.                                                       *)
(***************************************************************************)
\* A value stored in a short (positions[], doc_occurrences).
Short(x) == ((x + 32768) % 65536) - 32768

Min(a, b) == IF a < b THEN a ELSE b

(***************************************************************************)
(* The file system the engine reads: the directories that may be passed to *)
(* index_folder and the files in them.  A file is a record: its name in    *)
(* the directory, its bytes, its size as stat reports it, and whether it   *)
(* can be opened.                                                          *)
(***************************************************************************)
File(name, content) ==
  [name |-> name, content |-> content, size |-> Len(content), readable |-> TRUE]

\* A regular file that open() refuses.
Unreadable(name, content) ==
  [name |-> name, content |-> content, size |-> Len(content), readable |-> FALSE]

\* A file above the 100 MiB cap of build_from_files and below the 200 MiB
\* cap of the scanner; its bytes are never read.
Oversize(name) ==
  [name |-> name, content |-> "", size |-> 150 * 1024 * 1024, readable |-> TRUE]

DirPaths == {"data", "lib", "mix", "void", "dark", "notes.txt", "missing"}

\* stat(dirpath): "dir", "file", or "none" when stat fails.
DirStat(d) ==
  CASE d \in {"data", "lib", "mix", "void", "dark"} -> "dir"
    [] d = "notes.txt" -> "file"
    [] OTHER -> "none"

DirEntries(d) ==
  CASE d = "data" ->
         { File("fox.txt", "The quick brown fox.."),
           File("b.txt", "a Brown quick fox."),
           File("c.txt", "a brown quick fox!!"),
           File("readme.md", "quick brown") }
    [] d = "lib" ->
         { File("words.txt", "ab abc abcd abcde abcdef abcdefg zq7"),
           File("bz.txt", "ba be bo brown quick") }
    [] d = "mix" ->
         { Unreadable("locked.txt", "quick"),
           Oversize("huge.txt"),
           File("stop.txt", "the and"),
           File("quick brown.txt", "x QUICK BROWN quick") }
    [] d = "void" -> { File("readme.md", "quick brown") }
    [] d = "dark" ->
         { Unreadable("locked.txt", "quick"),
           Oversize("huge.txt") }
    [] OTHER -> {}

(***************************************************************************)
(* The directory scanner.                                                  *)
(***************************************************************************)
Reverse(s) == [i \in 1..Len(s) |-> s[Len(s) + 1 - i]]

\* Whether readdir's entry passes the filter of the scan loop.
scan_accepts(f) ==
  /\ Len(f.name) > 4
  /\ SubSeq(f.name, Len(f.name) - 3, Len(f.name)) = ".txt"
  /\ f.size <= 200 * 1024 * 1024

\* The inner loop of the exchange sort: compare position i with j, j+1, ...
RECURSIVE sort_inner(_, _, _)
sort_inner(s, i, j) ==
  IF j > Len(s) THEN s
  ELSE IF s[i].size > s[j].size
       THEN sort_inner([s EXCEPT ![i] = s[j], ![j] = s[i]], i, j + 1)
       ELSE sort_inner(s, i, j + 1)

RECURSIVE sort_outer(_, _)
sort_outer(s, i) ==
  IF i > Len(s) THEN s ELSE sort_outer(sort_inner(s, i, i + 1), i + 1)

\* scan_files_optimized, given the entries in the order readdir yields them:
\* the paths that pass the filter, by ascending size.
scan_files_optimized(dirpath, listing) ==
  LET found == SelectSeq(listing, scan_accepts)
      sorted == sort_outer(Reverse(found), 1)
  IN  [i \in 1..Len(sorted) |->
         [path |-> dirpath \o "/" \o sorted[i].name, file |-> sorted[i]]]

\* The orders in which readdir yields the entries of a directory: one order
\* and its reverse.
Listings(d) ==
  LET E == DirEntries(d)
      n == Cardinality(E)
      l == CHOOSE s \in [1..n -> E] : \A i, j \in 1..n : i # j => s[i] # s[j]
  IN  {l, Reverse(l)}

(***************************************************************************)
(* The trie: the paths of its nodes from the root (the root is ""), and    *)
(* the paths of the nodes flagged is_end.                                  *)
(***************************************************************************)
EmptyTrie == [nodes |-> {""}, ends |-> {}]

\* The length of the longest prefix of word made of 'a'..'z' only.
RECURSIVE letters_prefix(_, _)
letters_prefix(word, i) ==
  IF i > Len(word) \/ letter_idx(Char(word, i)) < 0 THEN i - 1
  ELSE letters_prefix(word, i + 1)

\* insert as it would be if the walk flagged the node it stops at.
trie_insert_flagging_stop(trie, word) ==
  IF Len(word) = 0 \/ Len(word) > TRIE_MAX_WORD THEN trie
  ELSE LET k == letters_prefix(word, 1) IN
       [nodes |-> trie.nodes \cup {SubSeq(word, 1, j) : j \in 0..k},
        ends  |-> trie.ends \cup {SubSeq(word, 1, k)}]

\* insert as it would be if the walk made the nodes and set no flag.
trie_insert_unflagged(trie, word) ==
  IF Len(word) = 0 \/ Len(word) > TRIE_MAX_WORD THEN trie
  ELSE [nodes |-> trie.nodes \cup {SubSeq(word, 1, j) : j \in 0..letters_prefix(word, 1)},
        ends  |-> trie.ends]

\* UltraFastTrie::insert: the walk returns at the first byte outside 'a'..'z',
\* leaving the nodes it made; the last node is flagged when it gets there.
trie_insert(trie, word) ==
  IF Len(word) = 0 \/ Len(word) > TRIE_MAX_WORD THEN trie
  ELSE LET k == letters_prefix(word, 1) IN
       [nodes |-> trie.nodes \cup {SubSeq(word, 1, j) : j \in 0..k},
        ends  |-> IF k = Len(word) THEN trie.ends \cup {word} ELSE trie.ends]

(***************************************************************************)
(* Building the index.                                                     *)
(***************************************************************************)
\* path.substr(find_last_of("/\\") + 1), the whole path when it has neither.
RECURSIVE basename_from(_, _)
basename_from(path, i) ==
  IF i = 0 THEN path
  ELSE IF Char(path, i) = "/" \/ Char(path, i) = "\\" THEN SubSeq(path, i + 1, Len(path))
  ELSE basename_from(path, i - 1)

basename(path) == basename_from(path, Len(path))

\* Posting(docId).
NewPosting(docId) == [docID |-> docId, freq |-> 0, positions |-> <<>>]

\* The body of the token loop for the posting p of the token at index i
\* (from 0): the position is stored in a short.
count_occurrence(p, i) ==
  IF p.freq < MAX_FREQ
  THEN [p EXCEPT !.freq = p.freq + 1,
                 !.positions = IF Len(p.positions) < MAX_POSTING_POSITIONS
                               THEN Append(p.positions, Short(i))
                               ELSE p.positions]
  ELSE p

\* The per-document postings: token i of tokens is counted into local[t].
RECURSIVE count_tokens(_, _, _, _)
count_tokens(tokens, i, docId, local) ==
  IF i > Len(tokens) THEN local
  ELSE LET t == tokens[i]
           p == IF t \in DOMAIN local THEN local[t] ELSE NewPosting(docId)
           q == count_occurrence(p, i - 1)
       IN  count_tokens(tokens, i + 1, docId,
                        [u \in DOMAIN local \cup {t} |-> IF u = t THEN q ELSE local[u]])

\* unique_words_vec after the tokens of one more document.
RECURSIVE add_unique(_, _, _)
add_unique(tokens, i, unique) ==
  IF i > Len(tokens) THEN unique
  ELSE add_unique(tokens, i + 1,
                  IF \E k \in 1..Len(unique) : unique[k] = tokens[i]
                  THEN unique ELSE Append(unique, tokens[i]))

\* The test that ends the file loop, made once a file has been ingested.
word_limit_reached(uq_ct) == uq_ct > WORD_LIMIT

\* The file loop: acc holds idx, docs, unique_words_vec and the word counter.
RECURSIVE ingest(_, _, _)
ingest(files, n, acc) ==
  IF n > Len(files) THEN acc
  ELSE LET f == files[n].file IN
       IF ~f.readable \/ f.size > 100 * 1024 * 1024 THEN ingest(files, n + 1, acc)
       ELSE LET tokens == tokenize_ultrafast(f.content)
                docId  == Len(acc.docs)
                local  == count_tokens(tokens, 1, docId, <<>>)
                doc    == [filename |-> basename(files[n].path),
                           filepath |-> files[n].path,
                           totalTokens |-> Len(tokens),
                           fileSize |-> f.size,
                           full_content |-> f.content]
                idx2   == [t \in DOMAIN acc.idx \cup DOMAIN local |->
                             IF t \in DOMAIN local
                             THEN (IF t \in DOMAIN acc.idx THEN acc.idx[t] ELSE <<>>)
                                    \o <<local[t]>>
                             ELSE acc.idx[t]]
                acc2   == [idx |-> idx2,
                           docs |-> Append(acc.docs, doc),
                           unique |-> add_unique(tokens, 1, acc.unique),
                           words |-> acc.words + Len(tokens),
                           files |-> acc.files + 1]
            IN  IF word_limit_reached(Len(acc2.unique)) THEN acc2
                ELSE ingest(files, n + 1, acc2)

RECURSIVE trie_of(_, _, _)
trie_of(unique, i, trie) ==
  IF i > Len(unique) THEN trie
  ELSE trie_of(unique, i + 1,
               IF Len(unique[i]) >= TRIE_MIN_LEN /\ Len(unique[i]) <= TRIE_MAX_LEN
               THEN trie_insert(trie, unique[i]) ELSE trie)

\* The index after clear().
ClearedIndex ==
  [idx |-> <<>>, docFreq |-> <<>>, docs |-> <<>>, trie |-> EmptyTrie,
   total_words_processed |-> 0, total_files_processed |-> 0]

\* docFreq of a term as it would be if the count were stored without min.
doc_freq_unclamped(ct) == Short(ct)

\* docFreq of a term with ct postings: (short)min(ct, 32767).
doc_freq_of(ct) == Short(Min(ct, DOCFREQ_MAX))

\* The index after build_from_files(files).  The trie is a set of words, so
\* the order in which the length-sorted words are inserted does not show.
finish_build(acc) ==
  [idx |-> acc.idx,
   docFreq |-> [t \in DOMAIN acc.idx |-> doc_freq_of(Len(acc.idx[t]))],
   docs |-> acc.docs,
   trie |-> trie_of(acc.unique, 1, EmptyTrie),
   total_words_processed |-> acc.words,
   total_files_processed |-> acc.files]

build_from_files(files) ==
  IF Len(files) = 0 THEN ClearedIndex
  ELSE finish_build(ingest(files, 1,
                           [idx |-> <<>>, docs |-> <<>>, unique |-> <<>>,
                            words |-> 0, files |-> 0]))

(***************************************************************************)
(* The two caches.  A cache is the list of its entries from the head.      *)
(***************************************************************************)
\* find_in_cache: the first entry with the key, from the head.
cache_has(cache, key) == \E i \in 1..Len(cache) : cache[i].key = key

cache_get(cache, key) ==
  cache[CHOOSE i \in 1..Len(cache) :
          /\ cache[i].key = key
          /\ \A j \in 1..(i - 1) : cache[j].key # key].results

\* insert_in_cache: at capacity the entry at the head is deleted, then the
\* new entry becomes the head.
insert_in_cache(cache, capacity, key, results) ==
  LET kept == IF Len(cache) >= capacity THEN Tail(cache) ELSE cache
  IN  <<[key |-> key, results |-> results]>> \o kept

\* A lookup that found nothing: the computed results are stored and returned.
cache_miss(cache, capacity, key, results) ==
  [val |-> results, cache |-> insert_in_cache(cache, capacity, key, results)]

(***************************************************************************)
(* Autocomplete.                                                           *)
(***************************************************************************)
\* FixedQueue::push: refused when the queue is full.
queue_push(q, x) == IF Len(q) = MAX_QUEUE_SIZE THEN q ELSE Append(q, x)

\* The for loop over the 26 children of the node at path str, from 'a'.
RECURSIVE push_children(_, _, _, _)
push_children(trie, str, i, q) ==
  IF i > 26 THEN q
  ELSE LET child == str \o Char(LowerLetters, i) IN
       push_children(trie, str, i + 1,
                     IF child \in trie.nodes THEN queue_push(q, child) ELSE q)

\* The while loop of starts_with.
RECURSIVE bfs(_, _, _, _)
bfs(trie, q, results, limit) ==
  IF Len(q) = 0 \/ Len(results) >= limit THEN results
  ELSE LET str == Head(q)
           res == IF str \in trie.ends THEN Append(results, str) ELSE results
       IN  bfs(trie,
               IF Len(res) < limit THEN push_children(trie, str, 1, Tail(q)) ELSE Tail(q),
               res, limit)

\* The walk along the prefix: whether every byte is a letter with a node.
RECURSIVE walk_ok(_, _, _)
walk_ok(trie, prefix, i) ==
  IF i > Len(prefix) THEN TRUE
  ELSE /\ letter_idx(Char(prefix, i)) >= 0
       /\ SubSeq(prefix, 1, i) \in trie.nodes
       /\ walk_ok(trie, prefix, i + 1)

\* What starts_with computes when the cache has no entry for the key.
starts_with_compute(trie, prefix, limit) ==
  IF Len(prefix) = 0 THEN <<>>
  ELSE IF ~walk_ok(trie, prefix, 1) THEN <<>>
  ELSE bfs(trie, queue_push(<<>>, prefix), <<>>, limit)

prefix_key(prefix, limit) == prefix \o "|" \o ToString(limit)

\* starts_with: the words returned, and the prefix cache afterwards.
starts_with(trie, pcache, prefix, limit) ==
  LET key == prefix_key(prefix, limit) IN
  IF cache_has(pcache, key)
  THEN [val |-> cache_get(pcache, key), cache |-> pcache]
  ELSE cache_miss(pcache, max_cache_size, key, starts_with_compute(trie, prefix, limit))

autocomplete(trie, pcache, prefix, limit) ==
  starts_with(trie, pcache, toLowerFast(prefix), limit)

(***************************************************************************)
(* Float arithmetic, in millionths.  TLC's integers have 32 bits,          *)
(* so a product is formed from the base-1000 digits of its factors; what   *)
(* is dropped is below one millionth.                                      *)
(***************************************************************************)
FMul(a, b) ==
  LET ah == a \div Unit
      al == a % Unit
      a1 == al \div 1000
      a0 == al % 1000
      bh == b \div Unit
      bl == b % Unit
      b1 == bl \div 1000
      b0 == bl % 1000
  IN  ah * b + al * bh + a1 * b1 + ((a1 * b0 + a0 * b1) \div 1000)

\* a / b for 0 <= a and 0 < b < 2.147.
FDiv(a, b) ==
  LET q  == a \div b
      r1 == (a % b) * 1000
      r2 == (r1 % b) * 1000
  IN  q * Unit + (r1 \div b) * 1000 + (r2 \div b)

\* log(1.0f + x) for 0 <= x <= 0.1, by its series.
Ln1p(x) ==
  LET x2 == FMul(x, x)
      x3 == FMul(x2, x)
      x4 == FMul(x3, x)
  IN  x - (x2 \div 2) + (x3 \div 3) - (x4 \div 4)

\* log10(N / df + 1.0f) for N and df in 1..6.
Log10Table ==
  << <<301030, 176091, 124939, 96910, 79181, 66947>>,
     <<477121, 301030, 221849, 176091, 146128, 124939>>,
     <<602060, 397940, 301030, 243038, 204120, 176091>>,
     <<698970, 477121, 367977, 301030, 255273, 221849>>,
     <<778151, 544068, 425969, 352183, 301030, 263241>>,
     <<845098, 602060, 477121, 397940, 342423, 301030>> >>

\* log(freq) for freq in 11..20.
LnTable ==
  <<2397895, 2484907, 2564949, 2639057, 2708050,
    2772589, 2833213, 2890372, 2944439, 2995732>>

(***************************************************************************)
(* The ranker.                                                             *)
(***************************************************************************)
idf(docFreq, N, term) ==
  IF term \notin DOMAIN docFreq THEN 0
  ELSE IF docFreq[term] = 0 \/ N = 0 THEN 0
  ELSE Log10Table[N][docFreq[term]]

\* The documents that hold the lowercased query as a substring, whatever the
\* number of query tokens.
exact_phrase_docs_any_length(docs, qtokens, exact_phrase) ==
  {d \in 0..(Len(docs) - 1) :
     Find(toLowerFast(docs[d + 1].full_content), exact_phrase) # 0}

\* The documents that hold the lowercased query as a substring; none unless
\* the query has two tokens or more.
exact_phrase_docs(docs, qtokens, exact_phrase) ==
  IF Len(qtokens) >= 2
  THEN {d \in 0..(Len(docs) - 1) :
          Find(toLowerFast(docs[d + 1].full_content), exact_phrase) # 0}
  ELSE {}

\* The score of one query term against a lowercased filename; 0 for no hit.
title_term_score(filename_lower, term) ==
  IF Len(term) < 3 THEN 0
  ELSE LET at == Find(filename_lower, term) IN
       IF at = 0 THEN 0
       ELSE LET pos  == at - 1
                last == pos + Len(term)
                word == /\ (pos = 0 \/ ~isalnum(Char(filename_lower, pos)))
                        /\ (last = Len(filename_lower)
                              \/ ~isalnum(Char(filename_lower, last + 1)))
                ts   == IF word THEN 2 * Unit ELSE Unit
            IN  IF pos < 20 THEN FMul(ts, 1500000) ELSE ts

RECURSIVE title_score(_, _, _)
title_score(filename_lower, qtokens, i) ==
  IF i > Len(qtokens) THEN 0
  ELSE title_term_score(filename_lower, qtokens[i])
         + title_score(filename_lower, qtokens, i + 1)

\* title_match_bonus, for every document; has_title_match is bonus > 0.
title_match_bonus(docs, qtokens) ==
  [d \in 0..(Len(docs) - 1) |-> title_score(toLowerFast(docs[d + 1].filename), qtokens, 1)]

RECURSIVE sum_seq(_, _)
sum_seq(s, i) == IF i > Len(s) THEN 0 ELSE s[i] + sum_seq(s, i + 1)

\* The token count the scorer reads for document docID.
scoring_tokens(docs, docID) == docs[1].totalTokens

\* base_score of one posting.
posting_score(docs, pp, idfv, bonus, exact) ==
  LET T   == scoring_tokens(docs, pp.docID)
      tf  == FDiv(pp.freq * Unit, Unit + Ln1p(T * 1000))
      pw  == IF Len(pp.positions) > 0 /\ T > 0
                /\ sum_seq(pp.positions, 1) * 5 < Len(pp.positions) * T
             THEN Unit + 2 * (200000
                    - ((sum_seq(pp.positions, 1) * Unit) \div (Len(pp.positions) * T)))
             ELSE Unit
      b0  == FMul(FMul(tf, idfv), pw)
      b1  == IF bonus[pp.docID] > 0 THEN FMul(b0, 10 * Unit + 5 * bonus[pp.docID]) ELSE b0
      b2  == IF pp.docID \in exact THEN 5 * b1 ELSE b1
  IN  IF pp.freq > 10
      THEN FMul(b2, Min(Unit + (LnTable[pp.freq - 10] \div 5), 3 * Unit))
      ELSE b2

\* The loop over the postings of one term; acc holds doc_scores,
\* doc_occurrences and the documents in the order they entered doc_scores.
RECURSIVE score_postings(_, _, _, _, _, _, _)
score_postings(docs, plist, i, idfv, bonus, exact, acc) ==
  IF i > Len(plist) THEN acc
  ELSE LET pp  == plist[i]
           d   == pp.docID
           old == d \in DOMAIN acc.scores
           sc  == (IF old THEN acc.scores[d] ELSE 0)
                    + posting_score(docs, pp, idfv, bonus, exact)
           oc  == Short((IF old THEN acc.occ[d] ELSE 0) + pp.freq)
       IN  score_postings(docs, plist, i + 1, idfv, bonus, exact,
             [scores |-> [e \in DOMAIN acc.scores \cup {d} |->
                            IF e = d THEN sc ELSE acc.scores[e]],
              occ    |-> [e \in DOMAIN acc.occ \cup {d} |->
                            IF e = d THEN oc ELSE acc.occ[e]],
              order  |-> IF old THEN acc.order ELSE Append(acc.order, d)])

\* The loop over the query tokens.
RECURSIVE score_terms(_, _, _, _, _, _, _, _)
score_terms(idx, docFreq, N, docs, qtokens, i, ctx, acc) ==
  IF i > Len(qtokens) THEN acc
  ELSE LET term == qtokens[i] IN
       score_terms(idx, docFreq, N, docs, qtokens, i + 1, ctx,
         IF term \notin DOMAIN idx THEN acc
         ELSE score_postings(docs, idx[term], 1, idf(docFreq, N, term),
                             ctx.bonus, ctx.exact, acc))

\* Document length normalization and the title boost.
normalized(docs, docID, score, bonus) ==
  LET docLength == scoring_tokens(docs, docID)
      s1 == IF docLength < 100 THEN FMul(score, 100000)
            ELSE IF docLength > 1000 /\ docLength < 100000 THEN FMul(score, 1200000)
            ELSE IF docLength > 200000 THEN FMul(score, 900000)
            ELSE score
  IN  IF bonus[docID] > 0 THEN FMul(s1, Unit + bonus[docID]) ELSE s1

\* RankedDoc::operator<.
RankedLess(a, b) ==
  IF a.exactPhraseMatch # b.exactPhraseMatch THEN (~a.exactPhraseMatch /\ b.exactPhraseMatch)
  ELSE IF a.titleBoost # b.titleBoost THEN a.titleBoost < b.titleBoost
  ELSE IF a.score - b.score > 100 \/ b.score - a.score > 100 THEN a.score < b.score
  ELSE a.totalOccurrences < b.totalOccurrences

\* The comparison handed to std::sort.
sort_comp(a, b) == RankedLess(b, a)

\* std::sort on a range of at most 16 elements is an insertion sort: the
\* element at i goes to the front when it compares before the first element,
\* and otherwise moves left past every element it compares before.
RECURSIVE linear_insert(_, _, _)
linear_insert(v, val, j) ==
  IF sort_comp(val, v[j])
  THEN linear_insert([v EXCEPT ![j + 1] = v[j]], val, j - 1)
  ELSE [v EXCEPT ![j + 1] = val]

RECURSIVE insertion_sort(_, _)
insertion_sort(v, i) ==
  IF i > Len(v) THEN v
  ELSE IF sort_comp(v[i], v[1])
       THEN insertion_sort(<<v[i]>> \o SubSeq(v, 1, i - 1) \o SubSeq(v, i + 1, Len(v)), i + 1)
       ELSE insertion_sort(linear_insert(v, v[i], i - 1), i + 1)

std_sort(v) == insertion_sort(v, 2)

(***************************************************************************)
(* search_with_ranking.                                                    *)
(***************************************************************************)
\* cache_key as it would be without the page number.
search_key_without_page(query, page, size) ==
  query \o "|PAGE|" \o ToString(size)

\* cache_key.
search_key(query, page, size) ==
  query \o "|PAGE|" \o ToString(page) \o "|" \o ToString(size)

\* The documents of doc_scores in the order the range-for visits them:
\* entered is the order in which they entered the map.
umap_iteration(entered, order) == IF order = "reverse" THEN Reverse(entered) ELSE entered

\* The gather loop: a RankedDoc for every scored document, in the order the
\* map gives them, without those whose score is not above 0.000001.
gather_scored(docs, order, bonus, exact, acc) ==
  LET visit == umap_iteration(acc.order, order)
      rd(d) == [docID |-> d,
                score |-> normalized(docs, d, acc.scores[d], bonus),
                totalOccurrences |-> acc.occ[d],
                inTitle |-> bonus[d] > 0,
                exactPhraseMatch |-> d \in exact,
                titleBoost |-> bonus[d]]
  IN  SelectSeq([i \in 1..Len(visit) |-> rd(visit[i])], LAMBDA r : r.score > 1)

\* The scoring loop under the title bonuses and the exact-phrase documents.
gather_ranked(index, N, order, qtok, bonus, exact) ==
  gather_scored(index.docs, order, bonus, exact,
                score_terms(index.idx, index.docFreq, N, index.docs, qtok, 1,
                            [bonus |-> bonus, exact |-> exact],
                            [scores |-> <<>>, occ |-> <<>>, order |-> <<>>]))

gather_tokens(index, N, order, lower, qtok) ==
  gather_ranked(index, N, order, qtok,
                title_match_bonus(index.docs, qtok),
                exact_phrase_docs(index.docs, qtok, lower))

gather_lower(index, N, order, lower) ==
  gather_tokens(index, N, order, lower, tokenize_ultrafast(lower))

\* all_results_raw before the sort.
gather(index, N, order, query) == gather_lower(index, N, order, toLowerFast(query))

\* start_idx as it would be if a page began on the last result of the page
\* before it.
page_start_overlapping(page, size) == (page - 1) * (size - 1)

\* start_idx of a page.
page_start(page, size) == (page - 1) * size

\* The slice [start_idx, end_idx) of the sorted results.
page_slice(raw, page, size) ==
  LET start_idx == page_start(page, size)
      end_idx   == Min(start_idx + size, Len(raw))
  IN  IF start_idx >= end_idx THEN <<>> ELSE SubSeq(raw, start_idx + 1, end_idx)

\* What search_with_ranking computes when the cache has no entry for the key.
search_compute(index, N, order, query, page, size) ==
  IF N = 0 THEN <<>>
  ELSE IF Len(tokenize_ultrafast(toLowerFast(query))) = 0 THEN <<>>
  ELSE IF Len(index.docs) = 0 THEN <<>>
  ELSE page_slice(std_sort(gather(index, N, order, query)), page, size)

\* search_with_ranking: the results returned, and the search cache afterwards.
search_with_ranking(index, N, scache, order, query, page, size) ==
  LET key == search_key(query, page, size) IN
  IF cache_has(scache, key)
  THEN [val |-> cache_get(scache, key), cache |-> scache]
  ELSE cache_miss(scache, SEARCH_CACHE_MAX, key,
                  search_compute(index, N, order, query, page, size))

\* The cnt loop over the list that came back.
count_results(r) == [val |-> Len(r.val), cache |-> r.cache]

\* get_total_results_count: the count returned, and the search cache afterwards.
get_total_results_count(index, N, scache, order, query) ==
  IF N = 0 THEN [val |-> 0, cache |-> scache]
  ELSE count_results(search_with_ranking(index, N, scache, order, query, 1, INT_MAX))

(***************************************************************************)
(* Prefix search.                                                          *)
(***************************************************************************)
\* The synthetic query as it would be with every suggestion joined.
RECURSIVE expand_query_all(_, _)
expand_query_all(sug, i) ==
  IF i > Len(sug) THEN ""
  ELSE (IF i > 1 THEN " " ELSE "") \o sug[i] \o expand_query_all(sug, i + 1)

\* The synthetic query: the first five suggestions, joined by single spaces.
RECURSIVE expand_query(_, _)
expand_query(sug, i) ==
  IF i > Len(sug) \/ i > PREFIX_TERMS THEN ""
  ELSE (IF i > 1 THEN " " ELSE "") \o sug[i] \o expand_query(sug, i + 1)

\* The value returned and both caches, when the search ran and when it did not.
with_pcache(r, pcache) == [val |-> r.val, scache |-> r.cache, pcache |-> pcache]

prefix_search_expanded(index, N, scache, order, sug, page, size) ==
  IF Len(sug.val) = 0
  THEN [val |-> <<>>, scache |-> scache, pcache |-> sug.cache]
  ELSE with_pcache(search_with_ranking(index, N, scache, order,
                                       expand_query(sug.val, 1), page, size),
                   sug.cache)

prefix_total_expanded(index, N, scache, order, sug) ==
  IF Len(sug.val) = 0
  THEN [val |-> 0, scache |-> scache, pcache |-> sug.cache]
  ELSE with_pcache(get_total_results_count(index, N, scache, order,
                                           expand_query(sug.val, 1)),
                   sug.cache)

\* prefix_search_with_pagination and get_prefix_total_results_count: the
\* value returned and both caches afterwards.
prefix_search_with_pagination(index, N, scache, pcache, order, prefix, expandLimit, page, size) ==
  prefix_search_expanded(index, N, scache, order,
                         autocomplete(index.trie, pcache, prefix, expandLimit), page, size)

get_prefix_total_results_count(index, N, scache, pcache, order, prefix, expandLimit) ==
  prefix_total_expanded(index, N, scache, order,
                        autocomplete(index.trie, pcache, prefix, expandLimit))

(***************************************************************************)
(* Snippets.                                                               *)
(***************************************************************************)
\* The byte offsets at which a query term of length >= 2 occurs in text.
match_offsets(text, query_terms) ==
  {pos \in 0..(Len(text) - 1) :
     \E k \in 1..Len(query_terms) :
        /\ Len(query_terms[k]) >= 2
        /\ pos + Len(query_terms[k]) <= Len(text)
        /\ SubSeq(text, pos + 1, pos + Len(query_terms[k])) = query_terms[k]}

head_of(text) == SubSeq(text, 1, Min(300, Len(text)))

\* The loop taken when no term occurs: the first line start that gives more
\* than 50 bytes.
RECURSIVE first_line_snippet(_, _)
first_line_snippet(text, i) ==
  IF i > Len(text) THEN head_of(text)
  ELSE IF isalpha(Char(text, i))
       THEN LET nl   == FindFrom(text, "\n", i)
                end  == IF nl = 0 THEN Len(text) ELSE nl - 1
                snip == SubSeq(text, i, i + Min(300, end - i + 1) - 1)
            IN  IF Len(snip) > 50 THEN snip ELSE first_line_snippet(text, i + 1)
       ELSE first_line_snippet(text, i + 1)

\* The loop over the sorted matches: the first window of more than 100 bytes.
RECURSIVE match_snippet(_, _, _)
match_snippet(text, offsets, from) ==
  IF \A pos \in offsets : pos < from THEN head_of(text)
  ELSE LET pos   == CHOOSE x \in offsets : x >= from /\ \A y \in offsets : y >= from => x <= y
           cs    == IF pos > 200 THEN pos - 200 ELSE 0
           ce    == Min(pos + 200, Len(text))
           snip  == (IF cs > 0 THEN "..." ELSE "") \o SubSeq(text, cs + 1, ce)
                      \o (IF ce < Len(text) THEN "..." ELSE "")
       IN  IF Len(snip) > 100 THEN snip ELSE match_snippet(text, offsets, pos + 1)

get_snippet_improved(text, query_terms) ==
  IF Len(text) = 0 \/ Len(query_terms) = 0 THEN ""
  ELSE LET offsets == match_offsets(text, query_terms) IN
       IF offsets = {} THEN first_line_snippet(text, 1)
       ELSE match_snippet(text, offsets, 0)

get_snippet_for_doc(index, query_terms, docID) ==
  IF docID >= 0 /\ docID < Len(index.docs)
  THEN get_snippet_improved(index.docs[docID + 1].full_content, query_terms)
  ELSE ""

(***************************************************************************)
(* The engine.                                                             *)
(*   index         the HyperOptimizedIndex: idx, docFreq, docs, trie and   *)
(*                 the two counters                                        *)
(*   prefix_cache  the trie's prefix cache, from its head                  *)
(*   Ndocs         the engine's document count                             *)
(*   search_cache  the engine's result cache, from its head                *)
(*   umap_order    how this build's unordered_map orders its elements      *)
(*   ret           the last call: its name, its arguments and its result   *)
(*   session       the pages handed out since the last rebuild to a client *)
(*                 that asks for pages 1, 2, ... of one query              *)
(***************************************************************************)
VARIABLES index, prefix_cache, Ndocs, search_cache, umap_order, ret, session

vars == <<index, prefix_cache, Ndocs, search_cache, umap_order, ret, session>>

\* The arguments the calls are made with.
Queries == {"quick brown", "Fox"}
PageSizes == {2}
Pages == 1..MaxPage
Prefixes == {"Ab", "b", "Z"}
Limits == {2, 6}
SnippetDocs == {0, 3}
SearchDirs == {"data", "mix", "missing"}
TrieDirs == {"lib", "data", "void", "notes.txt"}
PrefixDirs == {"lib", "missing"}

NoCall == [op |-> "none", args |-> <<>>, val |-> <<>>]

Call(op, args, val) == [op |-> op, args |-> args, val |-> val]

NewSession(q, k) == [query |-> q, size |-> k, pages |-> <<>>]

EngineInit ==
  /\ index = ClearedIndex
  /\ prefix_cache = <<>>
  /\ Ndocs = 0
  /\ search_cache = <<>>
  /\ umap_order \in {"insertion", "reverse"}
  /\ ret = NoCall

Init ==
  /\ EngineInit
  /\ session = NewSession("quick brown", 2)

\* clear_search_cache.
clear_search_cache(cache) == <<>>

\* index_folder on such a path as it would be if the engine cleared its
\* search cache before the test of the path.
IndexFolderBadPathClearing(d) ==
  /\ DirStat(d) # "dir"
  /\ ret' = Call("index_folder", <<d>>, IF DirStat(d) = "none" THEN "not found" ELSE "not a directory")
  /\ search_cache' = clear_search_cache(search_cache)
  /\ UNCHANGED <<index, prefix_cache, Ndocs, umap_order, session>>

\* index_folder on a path that stat does not find, or that is no directory.
IndexFolderBadPath(d) ==
  /\ DirStat(d) # "dir"
  /\ ret' = Call("index_folder", <<d>>, IF DirStat(d) = "none" THEN "not found" ELSE "not a directory")
  /\ UNCHANGED <<index, prefix_cache, Ndocs, search_cache, umap_order, session>>

\* index_folder on a directory: the scan, and the rebuild when it finds files.
IndexFolderDir(d) ==
  /\ DirStat(d) = "dir"
  /\ \E listing \in Listings(d) :
       LET files == scan_files_optimized(d, listing) IN
       IF Len(files) = 0
       THEN /\ ret' = Call("index_folder", <<d>>, "no files")
            /\ UNCHANGED <<index, prefix_cache, Ndocs, search_cache, umap_order, session>>
       ELSE LET built == build_from_files(files) IN
            /\ index' = built
            /\ prefix_cache' = <<>>
            /\ Ndocs' = Len(built.docs)
            /\ search_cache' = clear_search_cache(search_cache)
            /\ ret' = Call("index_folder", <<d>>, "built")
            /\ session' = NewSession(session.query, session.size)
            /\ UNCHANGED umap_order

IndexFolder(dirs) == \E d \in dirs : IndexFolderBadPath(d) \/ IndexFolderDir(d)

\* The session after page came back as val: the client takes it when it is the
\* page it is waiting for.
session_after(q, page, size, val) ==
  IF q = session.query /\ size = session.size /\ page = Len(session.pages) + 1
  THEN [session EXCEPT !.pages = Append(session.pages, val)]
  ELSE session

\* doc_freq as a lookup with operator[] would leave it: every term looked up
\* and not found is entered with 0.
looked_up(docFreq, terms) ==
  [t \in DOMAIN docFreq \cup {terms[i] : i \in 1..Len(terms)} |->
     IF t \in DOMAIN docFreq THEN docFreq[t] ELSE 0]

\* The return from search_with_ranking as it would be if idf looked the
\* query terms up with operator[].
SearchReturnsInserting(q, page, size, r) ==
  /\ search_cache' = r.cache
  /\ ret' = Call("search_with_ranking", <<q, page, size>>, r.val)
  /\ session' = session_after(q, page, size, r.val)
  /\ index' = [index EXCEPT !.docFreq = looked_up(index.docFreq,
                                                  tokenize_ultrafast(toLowerFast(q)))]
  /\ UNCHANGED <<prefix_cache, Ndocs, umap_order>>

\* A call that touches the search cache only.
SearchReturns(q, page, size, r) ==
  /\ search_cache' = r.cache
  /\ ret' = Call("search_with_ranking", <<q, page, size>>, r.val)
  /\ session' = session_after(q, page, size, r.val)
  /\ UNCHANGED <<index, prefix_cache, Ndocs, umap_order>>

TotalReturns(q, r) ==
  /\ search_cache' = r.cache
  /\ ret' = Call("get_total_results_count", <<q>>, r.val)
  /\ UNCHANGED <<index, prefix_cache, Ndocs, umap_order, session>>

\* A call that touches the prefix cache only.
AutocompleteReturns(p, limit, r) ==
  /\ prefix_cache' = r.cache
  /\ ret' = Call("autocomplete", <<p, limit>>, r.val)
  /\ UNCHANGED <<index, Ndocs, search_cache, umap_order, session>>

\* A call that touches both caches.
PrefixReturns(op, args, r) ==
  /\ search_cache' = r.scache
  /\ prefix_cache' = r.pcache
  /\ ret' = Call(op, args, r.val)
  /\ UNCHANGED <<index, Ndocs, umap_order, session>>

\* search_with_ranking, also reached through search_with_pagination.
Search(queries, pages) ==
  \E q \in queries, page \in pages, size \in PageSizes :
    SearchReturns(q, page, size,
                  search_with_ranking(index, Ndocs, search_cache, umap_order, q, page, size))

TotalCount(queries) ==
  \E q \in queries :
    TotalReturns(q, get_total_results_count(index, Ndocs, search_cache, umap_order, q))

Snippet(queries) ==
  \E q \in queries, docID \in SnippetDocs :
    /\ ret' = Call("get_snippet_for_doc", <<q, docID>>,
                   get_snippet_for_doc(index, tokenize_ultrafast(toLowerFast(q)), docID))
    /\ UNCHANGED <<index, prefix_cache, Ndocs, search_cache, umap_order, session>>

Autocomplete(prefixes, limits) ==
  \E p \in prefixes, limit \in limits :
    AutocompleteReturns(p, limit, autocomplete(index.trie, prefix_cache, p, limit))

PrefixSearch(prefixes, limits, pages) ==
  \E p \in prefixes, limit \in limits, page \in pages, size \in PageSizes :
    PrefixReturns("prefix_search_with_pagination", <<p, limit, page, size>>,
                  prefix_search_with_pagination(index, Ndocs, search_cache, prefix_cache,
                                                umap_order, p, limit, page, size))

PrefixTotal(prefixes, limits) ==
  \E p \in prefixes, limit \in limits :
    PrefixReturns("get_prefix_total_results_count", <<p, limit>>,
                  get_prefix_total_results_count(index, Ndocs, search_cache, prefix_cache,
                                                 umap_order, p, limit))

\* A caller that rebuilds through the engine's public index member: the index
\* clears itself and its trie, the engine's own fields are not touched.
BuildDirect(dirs) ==
  \E d \in dirs :
    /\ DirStat(d) = "dir"
    /\ \E listing \in Listings(d) :
         /\ index' = build_from_files(scan_files_optimized(d, listing))
         /\ prefix_cache' = <<>>
         /\ ret' = Call("build_from_files", <<d>>, "built")
         /\ UNCHANGED <<Ndocs, search_cache, umap_order, session>>

\* The engine as its search and count commands drive it.
Next ==
  \/ IndexFolder(SearchDirs)
  \/ Search(Queries, Pages)
  \/ TotalCount({"quick brown"})

Spec == Init /\ [][Next]_vars

\* The engine as its autocomplete command drives it.
NextTrie ==
  \/ IndexFolder(TrieDirs)
  \/ Autocomplete(Prefixes, Limits)

SpecTrie == Init /\ [][NextTrie]_vars

\* The engine as its prefix search commands drive it.
NextPrefix ==
  \/ IndexFolder(PrefixDirs)
  \/ PrefixSearch({"Ab", "Z"}, Limits, {1})
  \/ PrefixTotal({"Ab", "Z"}, Limits)

SpecPrefix == Init /\ [][NextPrefix]_vars

\* Every query command.
NextQueries ==
  \/ IndexFolder({"data", "lib", "missing"})
  \/ Search({"Fox"}, {1})
  \/ TotalCount({"Fox"})
  \/ Snippet({"Fox"})
  \/ Autocomplete({"b"}, {2})
  \/ PrefixSearch({"b"}, {2}, {1})
  \/ PrefixTotal({"b"}, {2})

SpecQueries == Init /\ [][NextQueries]_vars

\* The engine with a caller that also rebuilds the index directly.
NextDirect ==
  \/ IndexFolder({"data", "missing"})
  \/ BuildDirect({"lib", "data"})
  \/ Search({"Fox"}, Pages)
  \/ Autocomplete({"b"}, {2})

SpecDirect == Init /\ [][NextDirect]_vars

(***************************************************************************)
(* Properties of the search commands.                                      *)
(***************************************************************************)
RECURSIVE Concat(_, _)
Concat(pages, i) == IF i > Len(pages) THEN <<>> ELSE pages[i] \o Concat(pages, i + 1)

\* The pages handed out so far are the start of the full list, repeat no
\* document, and are the whole list, total many results, once n pages of
\* size k cover the total.
PagesReproduce(got, n, k, full, total) ==
  /\ got = SubSeq(full, 1, Min(n * k, Len(full)))
  /\ \A i, j \in 1..Len(got) : i # j => got[i].docID # got[j].docID
  /\ n * k >= total => got = full /\ Len(got) = total

OtherOrder(order) == IF order = "reverse" THEN "insertion" ELSE "reverse"

\* C3: the ranking comparison orders every two distinct result documents,
\* so the list a search returns is strictly ordered by it and is the list
\* the search returns when the scored documents are gathered in another order.
C3_OrderTotal ==
  ret.op = "search_with_ranking" =>
    /\ \A i, j \in 1..Len(ret.val) : i < j => RankedLess(ret.val[j], ret.val[i])
    /\ ret.val = search_compute(index, Ndocs, OtherOrder(umap_order),
                                ret.args[1], ret.args[2], ret.args[3])

\* Whether the lowercased raw query lies in the lowercased content of the
\* document a result names.
HoldsPhrase(query, r) ==
  Find(toLowerFast(index.docs[r.docID + 1].full_content), toLowerFast(query)) # 0

ExactFirst(results) ==
  \A i, j \in 1..Len(results) :
    results[i].exactPhraseMatch /\ ~results[j].exactPhraseMatch => i < j

\* C4: a returned result has exactPhraseMatch exactly when the query has two
\* tokens or more and the lowercased query is a substring of the document's
\* lowercased content, and every result with the flag comes before every
\* result without it.
C4_ExactPhrase ==
  /\ ret.op = "search_with_ranking" =>
        /\ \A i \in 1..Len(ret.val) :
              ret.val[i].exactPhraseMatch <=>
                /\ Len(tokenize_ultrafast(toLowerFast(ret.args[1]))) >= 2
                /\ HoldsPhrase(ret.args[1], ret.val[i])
        /\ ExactFirst(ret.val)
  /\ ret.op = "std_sort" => ExactFirst(ret.val)

\* A search returned a document with the phrase ahead of one without it.
C4_Witness ==
  /\ ret.op = "search_with_ranking"
  /\ Len(ret.val) = 2
  /\ ret.val[1].exactPhraseMatch
  /\ ~ret.val[2].exactPhraseMatch
  /\ ~HoldsPhrase(ret.args[1], ret.val[2])

\* C8: between two rebuilds, a search with the (query, page, size) of an
\* earlier search returns the list the earlier search returned, whatever
\* searches, insertions and evictions came between them.
C8_CacheIdempotent ==
  (/\ ret.op = "search_with_ranking"
   /\ ret.args[1] = session.query
   /\ ret.args[3] = session.size
   /\ ret.args[2] <= Len(session.pages))
    => ret.val = session.pages[ret.args[2]]

\* Page 1 was asked for again after page 2 had taken its place in the full
\* cache, and was computed anew.
C8_Witness ==
  /\ ret.op = "search_with_ranking"
  /\ ret.args = <<session.query, 1, session.size>>
  /\ Len(ret.val) = 2
  /\ Len(session.pages) = 2
  /\ Len(search_cache) = SEARCH_CACHE_MAX
  /\ search_cache[1].key = search_key(session.query, 1, session.size)
  /\ \A i \in 2..Len(search_cache) : search_cache[i].key = search_key("Fox", i, 2)

(***************************************************************************)
(* The sort of search_with_ranking on its own: it starts from a gathered   *)
(* list of four documents and sorts it.                                    *)
(***************************************************************************)
\* Scores about 0.00008 apart, as documents of 20000 tokens get them.
RankScores == {124880, 124960, 125041}
RankOccurrences == {1, 2}

RankedDocs(d) ==
  [docID : {d}, score : RankScores, totalOccurrences : RankOccurrences,
   inTitle : {FALSE}, exactPhraseMatch : BOOLEAN, titleBoost : {0}]

Gathered == {<<a, b, c, d>> : a \in RankedDocs(0), b \in RankedDocs(1),
                               c \in RankedDocs(2), d \in RankedDocs(3)}

InitRank ==
  /\ index = ClearedIndex
  /\ prefix_cache = <<>>
  /\ Ndocs = 0
  /\ search_cache = <<>>
  /\ umap_order = "insertion"
  /\ session = NewSession("", 0)
  /\ \E raw \in Gathered : ret = Call("gather", <<>>, raw)

Sort ==
  /\ ret.op = "gather"
  /\ ret' = Call("std_sort", <<ret.val>>, std_sort(ret.val))
  /\ UNCHANGED <<index, prefix_cache, Ndocs, search_cache, umap_order, session>>

NextRank == Sort

SpecRank == InitRank /\ [][NextRank]_vars

\* C2: every sorted list is in descending order of (exact_phrase_match,
\* title_boost, score with the 1e-4 tolerance, total_occurrences): no result
\* compares strictly greater than a result placed before it.
C2_SortedDescending ==
  ret.op = "std_sort" =>
    \A i, j \in 1..Len(ret.val) : i < j => ~RankedLess(ret.val[i], ret.val[j])

(***************************************************************************)
(* Properties of autocomplete.                                             *)
(***************************************************************************)
StartsWith(w, p) == Len(w) >= Len(p) /\ SubSeq(w, 1, Len(p)) = p

\* C5: every string autocomplete(p, limit) returns starts with the lowercased
\* p and is a key of the inverted index, a word inserted into the trie as a
\* whole.
C5_Containment ==
  ret.op = "autocomplete" =>
    \A i \in 1..Len(ret.val) :
      /\ StartsWith(ret.val[i], toLowerFast(ret.args[1]))
      /\ ret.val[i] \in DOMAIN index.idx
      /\ ret.val[i] \in index.trie.ends

\* autocomplete returned completions of a prefix given in upper case, from a
\* trie that also holds a path that is no word.
C5_Witness ==
  /\ ret.op = "autocomplete"
  /\ ret.args[1] = "Ab"
  /\ Len(ret.val) = 6
  /\ "zq" \in index.trie.nodes

\* Alphabetical order on words of lowercase letters.
RECURSIVE AlphaLess(_, _, _)
AlphaLess(u, w, i) ==
  IF i > Len(u) THEN i <= Len(w)
  ELSE IF i > Len(w) THEN FALSE
  ELSE IF Char(u, i) = Char(w, i) THEN AlphaLess(u, w, i + 1)
  ELSE letter_idx(Char(u, i)) < letter_idx(Char(w, i))

\* A breadth-first walk with children in alphabetical order meets shorter
\* words first and words of one length in alphabetical order.
MetBefore(u, w) == Len(u) < Len(w) \/ (Len(u) = Len(w) /\ AlphaLess(u, w, 1))

RECURSIVE BreadthFirst(_)
BreadthFirst(words) ==
  IF words = {} THEN <<>>
  ELSE LET w == CHOOSE x \in words : \A y \in words \ {x} : MetBefore(x, y)
       IN  <<w>> \o BreadthFirst(words \ {w})

WordsUnder(trie, p) == {w \in trie.ends : StartsWith(w, p)}

FirstWords(all, n) == SubSeq(all, 1, Min(n, Len(all)))

\* C6: for a non-empty prefix, autocomplete returns the first min(limit, M)
\* words of the breadth-first, alphabetical enumeration of the M trie words
\* under the prefix.
C6_BreadthFirstWords ==
  ret.op = "autocomplete" /\ Len(ret.args[1]) > 0 =>
    ret.val = FirstWords(BreadthFirst(WordsUnder(index.trie, toLowerFast(ret.args[1]))),
                         ret.args[2])

(***************************************************************************)
(* Properties of the prefix search commands.                               *)
(***************************************************************************)
\* The first n words, with one space between neighbours.
RECURSIVE JoinWords(_, _)
JoinWords(ws, n) ==
  IF n = 0 THEN ""
  ELSE IF n = 1 THEN ws[1]
  ELSE JoinWords(ws, n - 1) \o " " \o ws[n]

JoinFirstFive(ws) == JoinWords(ws, Min(5, Len(ws)))

\* What the prefix commands are to return for the completions ws, in the
\* state the call is made in.
SearchOfCompletions(ws, page, size) ==
  IF Len(ws) = 0 THEN <<>>
  ELSE search_with_ranking(index, Ndocs, search_cache, umap_order,
                           JoinFirstFive(ws), page, size).val

TotalOfCompletions(ws) ==
  IF Len(ws) = 0 THEN 0
  ELSE get_total_results_count(index, Ndocs, search_cache, umap_order,
                               JoinFirstFive(ws)).val

\* C7: prefix_search_with_pagination returns what search_with_pagination
\* returns for the first min(5, n) completions of the prefix joined by single
\* spaces, the empty list when there is none, and
\* get_prefix_total_results_count returns get_total_results_count of the same
\* query.
C7_PrefixDelegates ==
  [][/\ ret'.op = "prefix_search_with_pagination" =>
          ret'.val = SearchOfCompletions(
                       autocomplete(index.trie, prefix_cache,
                                    ret'.args[1], ret'.args[2]).val,
                       ret'.args[3], ret'.args[4])
     /\ ret'.op = "get_prefix_total_results_count" =>
          ret'.val = TotalOfCompletions(
                       autocomplete(index.trie, prefix_cache,
                                    ret'.args[1], ret'.args[2]).val)]_vars

\* A prefix search with six completions returned a document, and the search
\* it delegated to was for the first five.
C7_Witness ==
  /\ ret.op = "prefix_search_with_pagination"
  /\ ret.args = <<"Ab", 6, 1, 2>>
  /\ Len(ret.val) = 1
  /\ Len(search_cache) > 0
  /\ search_cache[1].key = search_key("ab abc abcd abcde abcdef", 1, 2)
  /\ Len(prefix_cache) > 0
  /\ Len(prefix_cache[1].results) = 6

(***************************************************************************)
(* Properties of rebuilding.                                               *)
(***************************************************************************)
\* C9: after every rebuild, through index_folder or directly on the engine's
\* index, the search cache and the prefix cache are both empty.
C9_CachesEmptyAfterRebuild ==
  (\/ ret.op = "build_from_files"
   \/ ret.op = "index_folder" /\ ret.val = "built")
    => search_cache = <<>> /\ prefix_cache = <<>>

(***************************************************************************)
(* The frame of the query commands.                                        *)
(***************************************************************************)
QueryCommands ==
  {"search_with_ranking", "get_total_results_count", "get_snippet_for_doc",
   "autocomplete", "prefix_search_with_pagination", "get_prefix_total_results_count"}

\* C10: a query command leaves the postings, doc_freq, the documents, the
\* trie words and Ndocs as they are; the two caches are all it may change.
C10_QueriesFrame ==
  [][ret'.op \in QueryCommands =>
       /\ index'.idx = index.idx
       /\ index'.docFreq = index.docFreq
       /\ index'.docs = index.docs
       /\ index'.trie = index.trie
       /\ Ndocs' = Ndocs]_vars

\* On a built index, a prefix search has filled both caches.
C10_Witness ==
  /\ ret.op = "prefix_search_with_pagination"
  /\ Len(index.docs) = 2
  /\ Ndocs = 2
  /\ Len(ret.val) > 0
  /\ search_cache # <<>>
  /\ prefix_cache # <<>>

(***************************************************************************)
(* The program: main builds one engine, indexes the data directory and     *)
(* answers one command.  What it prints is a record with the members of    *)
(* the JSON object, the timing left out.                                   *)
(***************************************************************************)
Max(a, b) == IF a > b THEN a ELSE b

\* The modes of a run and the arguments they are run with.
Modes == {"search", "autocomplete", "prefixsearch", "status"}
MainDirs == {"data", "lib", "mix", "void", "dark", "missing"}
MainQueries == {"quick brown", "b"}

\* The test main makes after index_folder, as it would be if main answered
\* whatever the index holds.
main_always_answers(N) == FALSE

\* The test main makes after index_folder.
main_no_documents(N) == N = 0

\* total_pages as main derives it.
total_pages_of(total_results, resultsPerPage) ==
  Max(1, (total_results + resultsPerPage - 1) \div resultsPerPage)

\* results_json: rank, document and snippet of every result of the page.
results_json(idx, query_terms, results, page, resultsPerPage) ==
  [i \in 1..Len(results) |->
     [rank |-> (page - 1) * resultsPerPage + 1 + (i - 1),
      docID |-> results[i].docID,
      score |-> results[i].score,
      snippet |-> get_snippet_for_doc(idx, query_terms, results[i].docID)]]

\* The object a search or prefix search prints.
page_json(mode, idx, query_terms, results, total_results, page, resultsPerPage) ==
  [mode |-> mode,
   count |-> Len(results),
   total_results |-> total_results,
   total_pages |-> total_pages_of(total_results, resultsPerPage),
   page |-> page,
   results_per_page |-> resultsPerPage,
   results |-> results_json(idx, query_terms, results, page, resultsPerPage)]

\* main returns: its exit code, what it printed, and the caches it leaves.
MainExits(args, code, out, scache, pcache) ==
  /\ ret' = Call("main", args, [exit |-> code, out |-> out])
  /\ search_cache' = scache
  /\ prefix_cache' = pcache
  /\ UNCHANGED <<index, Ndocs, umap_order, session>>

\* main's call of index_folder on the engine it has just constructed.
MainIndexFolder == ret.op = "none" /\ IndexFolder(MainDirs)

\* main's position after index_folder returned.
main_indexed == ret.op = "index_folder"

\* No document was indexed: the error object, exit code 1, in every mode.
MainNoDocuments ==
  /\ main_indexed
  /\ main_no_documents(Ndocs)
  /\ \E mode \in Modes :
       MainExits(<<ret.args[1], mode>>, 1,
                 [error |-> "No documents could be indexed."],
                 search_cache, prefix_cache)

\* The search mode once the page and then the total came back.
MainSearchPrints(args, q, page, size, results, total) ==
  MainExits(args, 0,
            page_json("search", index, tokenize_ultrafast(toLowerFast(q)),
                      results, total.val, page, size),
            total.cache, prefix_cache)

MainSearchCounts(args, q, page, size, r) ==
  MainSearchPrints(args, q, page, size, r.val,
                   get_total_results_count(index, Ndocs, r.cache, umap_order, q))

MainSearch ==
  /\ main_indexed
  /\ ~main_no_documents(Ndocs)
  /\ \E q \in MainQueries, page \in Pages, size \in PageSizes :
       MainSearchCounts(<<ret.args[1], "search", q, page, size>>, q, page, size,
                        search_with_ranking(index, Ndocs, search_cache, umap_order,
                                            q, page, size))

\* The autocomplete mode.
MainAutocompletePrints(args, r) ==
  MainExits(args, 0, [count |-> Len(r.val), suggestions |-> r.val],
            search_cache, r.cache)

MainAutocomplete ==
  /\ main_indexed
  /\ ~main_no_documents(Ndocs)
  /\ \E p \in MainQueries, limit \in Limits :
       MainAutocompletePrints(<<ret.args[1], "autocomplete", p, limit>>,
                              autocomplete(index.trie, prefix_cache, p, limit))

\* The prefix search mode; the snippets are taken for the prefix itself.
MainPrefixPrints(args, p, page, size, results, total) ==
  MainExits(args, 0,
            page_json("prefix_search", index, <<p>>, results, total.val, page, size),
            total.scache, total.pcache)

MainPrefixCounts(args, p, limit, page, size, r) ==
  MainPrefixPrints(args, p, page, size, r.val,
                   get_prefix_total_results_count(index, Ndocs, r.scache, r.pcache,
                                                  umap_order, p, limit))

MainPrefixSearch ==
  /\ main_indexed
  /\ ~main_no_documents(Ndocs)
  /\ \E p \in MainQueries, limit \in Limits, page \in Pages, size \in PageSizes :
       MainPrefixCounts(<<ret.args[1], "prefixsearch", p, limit, page, size>>,
                        p, limit, page, size,
                        prefix_search_with_pagination(index, Ndocs, search_cache,
                                                      prefix_cache, umap_order,
                                                      p, limit, page, size))

\* No mode given: the status object.
MainStatus ==
  /\ main_indexed
  /\ ~main_no_documents(Ndocs)
  /\ MainExits(<<ret.args[1], "status">>, 0,
               [status |-> "ready",
                documents |-> Len(index.docs),
                unique_terms |-> Cardinality(DOMAIN index.idx),
                total_words_indexed |-> index.total_words_processed],
               search_cache, prefix_cache)

NextMain ==
  \/ MainIndexFolder
  \/ MainNoDocuments
  \/ MainSearch
  \/ MainAutocomplete
  \/ MainPrefixSearch
  \/ MainStatus

SpecMain == Init /\ [][NextMain]_vars

(***************************************************************************)
(* Properties of a run of the program.                                     *)
(***************************************************************************)
\* A run of main has ended with no document in the index.
EmptyCorpusRun == ret.op = "main" /\ Len(index.docs) = 0

\* C11 as the specification states it: a run over a data directory that
\* yields no indexed document prints the status object with documents = 0,
\* and a search run prints count 0, total_results 0 and total_pages 1.
C11_EmptyCorpusAnswers ==
  EmptyCorpusRun =>
    /\ ret.args[2] = "status" =>
         /\ "documents" \in DOMAIN ret.val.out
         /\ ret.val.out.documents = 0
    /\ ret.args[2] \in {"search", "prefixsearch"} =>
         /\ {"count", "total_results", "total_pages"} \subseteq DOMAIN ret.val.out
         /\ ret.val.out.count = 0
         /\ ret.val.out.total_results = 0
         /\ ret.val.out.total_pages = 1

\* C11, amended: a run over a data directory that yields no indexed document
\* prints the error object and exits with code 1 in every mode, the status
\* and the search modes included; on the engine itself every search call
\* returns the empty list and the total 0, which main would turn into
\* total_pages 1.
C11_EmptyCorpusRefused ==
  /\ EmptyCorpusRun =>
       /\ ret.val.exit = 1
       /\ DOMAIN ret.val.out = {"error"}
       /\ ret.val.out.error = "No documents could be indexed."
  /\ Len(index.docs) = 0 /\ ret.op # "none" =>
       \A q \in MainQueries, page \in Pages, size \in PageSizes :
         /\ search_with_ranking(index, Ndocs, search_cache, umap_order,
                                q, page, size).val = <<>>
         /\ get_total_results_count(index, Ndocs, search_cache, umap_order, q).val = 0
         /\ total_pages_of(0, size) = 1

\* A search run over a directory without any .txt file has ended.
C11_Witness ==
  /\ EmptyCorpusRun
  /\ ret.args[1] = "void"
  /\ ret.args[2] = "search"

(***************************************************************************)
(* Queries without a term.                                                 *)
(***************************************************************************)
\* The empty query, separators only, and a query of a stop word, digits, a
\* one-letter run and a run of 16 letters.
TermlessQueries == {"", " ,.;", "The 12 a abcdefghijklmnop!"}

\* The engine asked such queries, and one query with a term.
NextTermless ==
  \/ IndexFolder({"data", "missing"})
  \/ Search(TermlessQueries, {1, 2})
  \/ Search({"Fox"}, {1})
  \/ TotalCount(TermlessQueries)

SpecTermless == Init /\ [][NextTermless]_vars

\* C12: in every index state, search_with_ranking on a query without a term
\* returns the empty list whatever the page, get_total_results_count on it
\* returns 0, and neither call changes the index or the document count.
C12_TermlessQueryEmpty ==
  [][ret'.op \in {"search_with_ranking", "get_total_results_count"}
       /\ ret'.args[1] \in TermlessQueries
     => /\ ret'.op = "search_with_ranking" => ret'.val = <<>>
        /\ ret'.op = "get_total_results_count" => ret'.val = 0
        /\ index' = index
        /\ Ndocs' = Ndocs]_vars

\* A query of stop words only was answered by an index that holds documents
\* with these words, and a page of another query is in the cache.
C12_Witness ==
  /\ ret.op = "search_with_ranking"
  /\ ret.args[1] = "The 12 a abcdefghijklmnop!"
  /\ Len(tokenize_ultrafast(toLowerFast(ret.args[1]))) = 0
  /\ Ndocs = 3
  /\ \E i \in 1..Len(search_cache) : Len(search_cache[i].results) > 0

(***************************************************************************)
(* Eviction from the caches.                                               *)
(***************************************************************************)
\* An insertion into a full cache as first-in-first-out eviction makes it:
\* the entry at the end of the list, inserted earliest, goes, and every other
\* entry can still be found.
FifoStep(cache, after, capacity) ==
  Len(cache) >= capacity /\ after # cache /\ after # <<>> =>
    /\ ~cache_has(after, cache[Len(cache)].key)
    /\ \A i \in 1..(Len(cache) - 1) : cache_has(after, cache[i].key)

\* C13: in the prefix cache and in the search cache, an insertion into a full
\* cache removes the entry inserted earliest among those held, and every
\* other entry stays retrievable.
C13_FifoEviction ==
  [][/\ FifoStep(prefix_cache, prefix_cache', max_cache_size)
     /\ FifoStep(search_cache, search_cache', SEARCH_CACHE_MAX)]_vars

(***************************************************************************)
(* The tokenizer on its own: it starts from a byte buffer and scans it.    *)
(***************************************************************************)
\* The longest buffer, in pieces.
MaxPieces == 3

\* A byte of 0x80 or above, which isalnum rejects in the C locale the
\* program runs in; it stands in the texts as this character.
HIGH == "~"

\* The pieces the buffers are made of: a stop word, a word, digits, one
\* letter, a run of 16 letters, a blank, the byte 0 and a byte above 0x7F.
Pieces == {"the", "Fox", "12", "a", "abcdefghijklmnop", " ", NUL, HIGH}

RECURSIVE JoinPieces(_, _)
JoinPieces(ps, i) == IF i > Len(ps) THEN "" ELSE ps[i] \o JoinPieces(ps, i + 1)

Buffers == {JoinPieces(ps, 1) : ps \in UNION {[1..n -> Pieces] : n \in 0..MaxPieces}}

InitTokenize ==
  /\ index = ClearedIndex
  /\ prefix_cache = <<>>
  /\ Ndocs = 0
  /\ search_cache = <<>>
  /\ umap_order = "insertion"
  /\ session = NewSession("", 0)
  /\ \E text \in Buffers : ret = Call("read", <<>>, text)

Tokenize ==
  /\ ret.op = "read"
  /\ ret' = Call("tokenize_ultrafast", <<ret.val>>, tokenize_ultrafast(ret.val))
  /\ UNCHANGED <<index, prefix_cache, Ndocs, search_cache, umap_order, session>>

NextTokenize == Tokenize

SpecTokenize == InitTokenize /\ [][NextTokenize]_vars

\* The maximal runs of ASCII alphanumeric bytes of text from position i on,
\* lowercased; run is the run that ends before position i.
RECURSIVE MaximalRuns(_, _, _)
MaximalRuns(text, i, run) ==
  IF i > Len(text) THEN (IF run = "" THEN <<>> ELSE <<run>>)
  ELSE IF Char(text, i) \in LowerSet \cup UpperSet \cup DigitSet
       THEN MaximalRuns(text, i + 1,
                        run \o (IF Char(text, i) \in UpperSet
                                THEN LowerOf[Char(text, i)] ELSE Char(text, i)))
       ELSE (IF run = "" THEN <<>> ELSE <<run>>) \o MaximalRuns(text, i + 1, "")

\* A run that is a term: 2 to 15 bytes, no stop word, not all digits.
IsTerm(run) ==
  /\ Len(run) >= 2
  /\ Len(run) <= 15
  /\ run \notin STOP_WORDS
  /\ \E i \in 1..Len(run) : Char(run, i) \notin DigitSet

\* C14: for every byte buffer, the byte 0 and bytes above 0x7F included,
\* tokenize_ultrafast returns in order exactly the maximal runs of ASCII
\* alphanumeric bytes, lowercased, that are terms; a byte that is not
\* alphanumeric ends the current run and never the scan.
C14_TokensAreMaximalRuns ==
  ret.op = "tokenize_ultrafast" =>
    ret.val = SelectSeq(MaximalRuns(ret.args[1], 1, ""), IsTerm)

(***************************************************************************)
(* The token count the scorer uses.                                        *)
(***************************************************************************)
\* The index with the token count of the first document set to T: the
\* scorer, which reads that count, then scores with T.
ScoredWith(idx, T) == [idx EXCEPT !.docs[1].totalTokens = T]

\* The score document d gets for query when the scorer's token count is the
\* one of d itself.
OwnScore(d, query) ==
  LET raw == gather(ScoredWith(index, index.docs[d + 1].totalTokens),
                    Ndocs, umap_order, query)
      at  == CHOOSE i \in 1..Len(raw) : raw[i].docID = d
  IN  raw[at].score

\* C15: the token count T in a posting's term-frequency normalization and
\* position ratio, and in a scored document's length multiplier, is the
\* total_tokens of that document itself: every result of a search carries
\* the score computed with its own document's T.
C15_OwnTokenCount ==
  ret.op = "search_with_ranking" =>
    \A i \in 1..Len(ret.val) :
      ret.val[i].score = OwnScore(ret.val[i].docID, ret.args[1])

(***************************************************************************)
(* The vocabulary and the trie.                                            *)
(***************************************************************************)
\* The terms of the inverted index the build offers to the trie.
TrieTerms == {t \in DOMAIN index.idx : Len(t) >= 2 /\ Len(t) <= 20}

OnlyLetters(t) == \A i \in 1..Len(t) : Char(t, i) \in LowerSet

\* t is among the words starts_with computes for prefix p and limit.
Completes(p, limit, t) ==
  \E i \in 1..Len(starts_with_compute(index.trie, p, limit)) :
     starts_with_compute(index.trie, p, limit)[i] = t

BuildDirs == {"data", "lib", "mix", "dark", "void", "missing"}

\* Numbers of postings of one term: of a few documents, and of about 32767.
PostingCounts == (0..60) \cup (32740..32800)

\* The docFreq loop for a term with ct postings.
SetDocFreq ==
  \E ct \in PostingCounts :
    /\ ret' = Call("docFreq", <<ct>>, doc_freq_of(ct))
    /\ UNCHANGED <<index, prefix_cache, Ndocs, search_cache, umap_order, session>>

NextBuild ==
  \/ IndexFolder(BuildDirs)
  \/ SetDocFreq

SpecBuild == Init /\ [][NextBuild]_vars

\* The postings of a term have pairwise distinct doc_ids, each the doc_id of
\* a document of the list.
PostingsWellFormed(t) ==
  /\ \A i, j \in 1..Len(index.idx[t]) :
       i # j => index.idx[t][i].docID # index.idx[t][j].docID
  /\ \A i \in 1..Len(index.idx[t]) :
       /\ index.idx[t][i].docID >= 0
       /\ index.idx[t][i].docID < Len(index.docs)

\* C17 as the specification states it: doc_freq of a term is the number of
\* its postings, whatever that number, and the postings of every term have
\* pairwise distinct doc_ids of documents of the list.
C17_DocFreqIsCount ==
  /\ \A t \in DOMAIN index.idx :
       /\ index.docFreq[t] = Len(index.idx[t])
       /\ PostingsWellFormed(t)
  /\ ret.op = "docFreq" => ret.val = ret.args[1]

\* C17, amended: doc_freq of a term is the number of its postings up to
\* 32767 and 32767 beyond; the postings of every term have pairwise distinct
\* doc_ids, each the doc_id of a document of the list, also when unreadable
\* or oversize files were skipped.
C17_DocFreqIsClampedCount ==
  /\ DOMAIN index.docFreq = DOMAIN index.idx
  /\ \A t \in DOMAIN index.idx :
       /\ index.docFreq[t] = Min(Len(index.idx[t]), DOCFREQ_MAX)
       /\ PostingsWellFormed(t)
  /\ ret.op = "docFreq" => ret.val = Min(ret.args[1], DOCFREQ_MAX)

\* An index was built from a directory where two files were skipped, and
\* docFreq was set for a term with more than 32767 postings.
C17_Witness ==
  /\ Len(index.docs) = 2
  /\ index.docs[2].filename = "quick brown.txt"
  /\ "quick" \in DOMAIN index.idx
  /\ ret.op = "docFreq"
  /\ ret.args[1] > DOCFREQ_MAX

(***************************************************************************)
(* The token loop on its own, for the posting of one term: the term occurs *)
(* at the token indices first, first + stride, first + 2 stride, ... of a  *)
(* document of up to 100,000 tokens, and the loop body counts them one by  *)
(* one.  ret holds the posting and the number of occurrences counted.      *)
(***************************************************************************)
FirstOccurrences == {0, 7, 32760, 99000}
Strides == {1, 2, 900}

\* The token index of occurrence k (from 1) of the term.
OccurrenceIndex(first, stride, k) == first + (k - 1) * stride

InitPosting ==
  /\ index = ClearedIndex
  /\ prefix_cache = <<>>
  /\ Ndocs = 0
  /\ search_cache = <<>>
  /\ umap_order = "insertion"
  /\ session = NewSession("", 0)
  /\ \E first \in FirstOccurrences, stride \in Strides :
       ret = Call("token_loop", <<first, stride>>, [p |-> NewPosting(0), n |-> 0])

\* One more occurrence of the term is met by the loop.
CountOccurrence ==
  /\ ret.op = "token_loop"
  /\ ret.val.n < MAX_FREQ + 2
  /\ OccurrenceIndex(ret.args[1], ret.args[2], ret.val.n + 1) < MAX_TOKENS
  /\ ret' = [ret EXCEPT !.val =
               [p |-> count_occurrence(ret.val.p,
                                       OccurrenceIndex(ret.args[1], ret.args[2],
                                                       ret.val.n + 1)),
                n |-> ret.val.n + 1]]
  /\ UNCHANGED <<index, prefix_cache, Ndocs, search_cache, umap_order, session>>

NextPosting == CountOccurrence

SpecPosting == InitPosting /\ [][NextPosting]_vars

\* C18: for every posting p of a document of up to 100,000 tokens,
\* 0 <= p.freq <= 1000, len(p.positions) <= min(p.freq, 50), p.positions is
\* strictly increasing, and the stored positions are the token indices of
\* the earliest occurrences of the term in the document.
C18_PostingBounds ==
  ret.op = "token_loop" =>
    LET p == ret.val.p IN
    /\ p.freq >= 0
    /\ p.freq <= 1000
    /\ Len(p.positions) <= Min(p.freq, 50)
    /\ \A j \in 1..(Len(p.positions) - 1) : p.positions[j] < p.positions[j + 1]
    /\ \A j \in 1..Len(p.positions) :
         /\ p.positions[j] >= 0
         /\ p.positions[j] < MAX_TOKENS
         /\ p.positions[j] = OccurrenceIndex(ret.args[1], ret.args[2], j)

(***************************************************************************)
(* The file loop on its own, by the size of the vocabulary: each ingested  *)
(* file adds some number of new terms, at most as many as it has tokens,   *)
(* and the word limit is tested after it.  ret holds the size of           *)
(* unique_words_vec, the number of files ingested and whether the loop is  *)
(* still running.                                                          *)
(***************************************************************************)
\* The longest list of files.
MaxFiles == 6

\* The numbers of new terms one file brings.
NewTerms == {0, 1, 60000, MAX_TOKENS}

InitVocabulary ==
  /\ index = ClearedIndex
  /\ prefix_cache = <<>>
  /\ Ndocs = 0
  /\ search_cache = <<>>
  /\ umap_order = "insertion"
  /\ session = NewSession("", 0)
  /\ ret = Call("file_loop", <<>>, [uq_ct |-> 0, files |-> 0, running |-> TRUE])

\* One more file is ingested, whole, and the limit is tested.
IngestFile ==
  /\ ret.op = "file_loop"
  /\ ret.val.running
  /\ ret.val.files < MaxFiles
  /\ \E new \in NewTerms :
       ret' = [ret EXCEPT !.val =
                 [uq_ct |-> ret.val.uq_ct + new,
                  files |-> ret.val.files + 1,
                  running |-> ~word_limit_reached(ret.val.uq_ct + new)]]
  /\ UNCHANGED <<index, prefix_cache, Ndocs, search_cache, umap_order, session>>

NextVocabulary == IngestFile

SpecVocabulary == InitVocabulary /\ [][NextVocabulary]_vars

\* C19: during and after the build the vocabulary never holds more than
\* 200,000 distinct terms, and ingestion has stopped as soon as it holds
\* 200,000.
C19_VocabularyCapped ==
  ret.op = "file_loop" =>
    /\ ret.val.uq_ct <= 200000
    /\ ret.val.uq_ct >= 200000 => ~ret.val.running

(***************************************************************************)
(* index_folder calls that return early.                                   *)
(***************************************************************************)
\* The engine indexed over good and bad paths, with both caches in use.
NextFailing ==
  \/ IndexFolder({"data", "lib", "void", "notes.txt", "missing"})
  \/ Search({"Fox", "quick brown"}, {1})
  \/ Autocomplete({"b"}, {2})

SpecFailing == Init /\ [][NextFailing]_vars

\* What index_folder reports when it returns before the build.
EarlyReturns == {"not found", "not a directory", "no files"}

\* C20: an index_folder call that returns early (no such path, no
\* directory, no .txt file in it) leaves postings, doc_freq, documents,
\* trie, Ndocs and both caches exactly as they were, so the queries are
\* answered as before the call.
C20_FailedIndexFolderFrame ==
  [][ret'.op = "index_folder" /\ ret'.val \in EarlyReturns
     => /\ index' = index
        /\ Ndocs' = Ndocs
        /\ search_cache' = search_cache
        /\ prefix_cache' = prefix_cache
        /\ \A q \in {"Fox", "quick brown"} :
             search_with_ranking(index', Ndocs', search_cache', umap_order', q, 1, 2).val
               = search_with_ranking(index, Ndocs, search_cache, umap_order, q, 1, 2).val
        /\ autocomplete(index'.trie, prefix_cache', "b", 2).val
             = autocomplete(index.trie, prefix_cache, "b", 2).val]_vars

\* index_folder has returned early on a directory without .txt files, over
\* an index of three documents and two caches that hold entries.
C20_Witness ==
  /\ ret.op = "index_folder"
  /\ ret.val = "no files"
  /\ Ndocs = 3
  /\ Len(search_cache) > 0
  /\ Len(prefix_cache) > 0

=============================================================================
